---- MODULE Spec2Model ----
(***************************************************************************)
(* Image-proxy handlers of server-1: the five handler variants found in    *)
(* src/api/index.js, src/api/compress.js and src/unnamed/part_000, and the *)
(* size-targeted quality search compressToTargetSize.                      *)
(*                                                                         *)
(* One invocation of one handler is modelled.  Every await of the code is  *)
(* a step of its own, so that the timeout timer can fire between any two   *)
(* of them.  Buffers are records carrying their producer and their length. *)
(***************************************************************************)
EXTENDS Integers, Sequences, FiniteSets, TLC

\* ------------------------------------------------------------ constants
MAX_INPUT_SIZE_BYTES == 31457280
TARGET_SIZE_STRICT == 102400
TARGET_SIZE_RELAXED == 153600
MinQualityStart == 5
MaxQualityStart == 100
MaxIterations == 8
BestEffortQuality == 5

\* --------------------------------------------------------------- bounds
\* small byte lengths of fetched and encoded buffers are 0..MaxLen(+1)
MaxLen == 3
\* synthetic encoders change their size by at most MaxSlope bytes per
\* quality step
MaxSlope == 2
\* page counts reported by the decoder are 0..MaxPages (0: field absent)
MaxPages == 2

VARIABLES
  variant,                    \* which handler serves the request
  req,                        \* the request: path and query
  pc,                         \* the await the invocation is suspended at
  timeoutId,                  \* "none", "armed" or "cleared"
  aborted,                    \* controller.signal.aborted
  abortedAt,                  \* history: pc at which the timer fired
  originalContentTypeHeader,  \* content-type header of the GET response
  originalBuffer,             \* the downloaded bytes
  metadata,                   \* decoded metadata: pages
  enc,                        \* the encoder's size curve for this image
  targetSize,                 \* byte budget of the quality search
  search,                     \* locals of compressToTargetSize
  compressedBuffer,           \* result of the transcode
  avif,                       \* the AVIF encode of the dual-codec variant
  webp,                       \* the WebP encode of the dual-codec variant
  encodes,                    \* history: number of encodes performed
  error,                      \* the error the catch block caught, or "none"
  res                         \* the response sent, status 0 while unsent

vars == <<variant, req, pc, timeoutId, aborted, abortedAt,
          originalContentTypeHeader, originalBuffer, metadata, enc,
          targetSize, search, compressedBuffer, avif, webp, encodes, error, res>>

\* -------------------------------------------------------------- buffers
NullBuffer == [src |-> "null", quality |-> 0, len |-> 0]

Buffer(s, q, n) == [src |-> s, quality |-> q, len |-> n]

\* ------------------------------------------------- compressToTargetSize
\* An encoder is a size curve: the length of the encode at quality q.
EncodedSize(e, q) == e.base + e.slope * q

Encode(e, q) == Buffer("webp", q, EncodedSize(e, q))

Qualities == MinQualityStart..MaxQualityStart

currentQuality(s) == (s.minQuality + s.maxQuality) \div 2

FitsStrictly(len, target) == len < target

Fits(len, target) == len <= target

NoBestEffort(e) == NullBuffer

BestEffort(e) == Encode(e, BestEffortQuality)

SearchStart == [minQuality |-> MinQualityStart, maxQuality |-> MaxQualityStart,
                bestBuffer |-> NullBuffer, i |-> 0, probed |-> {}]

SearchIdle == [minQuality |-> 0, maxQuality |-> 0,
               bestBuffer |-> NullBuffer, i |-> 0, probed |-> {}]

\* a cap two iterations short of the one the loop has
LoopCutShort(s) == s.i < MaxIterations - 2 /\ currentQuality(s) >= s.minQuality

LoopContinues(s) == s.i < MaxIterations /\ currentQuality(s) >= s.minQuality

\* one iteration of the for loop: one encode at the midpoint quality
Probe(s, e, target) ==
  LET q == currentQuality(s)
      b == Encode(e, q)
  IN  IF Fits(b.len, target)
        THEN [s EXCEPT !.bestBuffer = b, !.minQuality = q + 1,
                       !.i = @ + 1, !.probed = @ \cup {q}]
        ELSE [s EXCEPT !.maxQuality = q - 1,
                       !.i = @ + 1, !.probed = @ \cup {q}]

\* where the search stands after an iteration: still looping, returning the
\* best buffer, or starting the best-effort encode
AfterProbe(s) ==
  IF LoopContinues(s) THEN "search"
  ELSE IF s.bestBuffer # NullBuffer THEN "returned" ELSE "besteffort"

\* the encode of an iteration completes; the loop goes on or is left
SearchProbe ==
  /\ pc = "search"
  /\ LET s == Probe(search, enc, targetSize)
     IN  /\ search' = s
         /\ pc' = AfterProbe(s)
         /\ compressedBuffer' =
              IF AfterProbe(s) = "returned" THEN s.bestBuffer ELSE compressedBuffer
  /\ encodes' = encodes + 1
  /\ UNCHANGED <<variant, req, timeoutId, aborted, abortedAt,
                 originalContentTypeHeader, originalBuffer, metadata, enc,
                 targetSize, avif, webp, error, res>>

\* the best-effort encode completes and is returned
BestEffortDone ==
  /\ pc = "besteffort"
  /\ compressedBuffer' = BestEffort(enc)
  /\ pc' = "returned"
  /\ encodes' = encodes + 1
  /\ UNCHANGED <<variant, req, timeoutId, aborted, abortedAt,
                 originalContentTypeHeader, originalBuffer, metadata, enc,
                 targetSize, search, avif, webp, error, res>>

\* ----------------------------------------------------- responses
NoRes == [status |-> 0, contentType |-> <<>>, location |-> "",
          xOriginalSize |-> -1, xCompressedSize |-> -1, body |-> NullBuffer]

\* ------------------------------------------------------ handler variants
\* "index"           src/api/index.js            AVIF, HEAD check, placeholder
\* "compress_fixed"  src/api/compress.js:23      WebP at quality 5
\* "compress_target" src/api/compress.js:169     WebP quality search
\* "race"            src/unnamed/part_000:22     AVIF against WebP
\* "final"           src/unnamed/part_000:141    WebP at quality 5
Variants == {"index", "compress_fixed", "compress_target", "race", "final"}

HasFaviconGate(v) == v # "index"

UsesHead(v) == v = "index"

ValidatesContentType(v) == v # "index"

RejectsEmptyBody(v) == v # "index"

ChecksDownloadedSize(v) == v \in {"compress_fixed", "compress_target", "race"}

Policy(v) ==
  CASE v = "index" -> "avif"
    [] v = "race" -> "race"
    [] v = "compress_target" -> "search"
    [] OTHER -> "webp"

\* ------------------------------------------------------------- requests
Urls == {"", "not a url", "http://origin/a.png", "http://origin/favicon.png"}

Paths == {"/api", "/favicon.ico"}

Requests ==
  { r \in [path : Paths, hasUrl : BOOLEAN, url : Urls,
           debug : {"", "true"}, mode : {"", "relaxed"}] :
      ~r.hasUrl => r.url = "" }

\* new URL(imageUrl) succeeds
ParsesAsURL(u) == u \in {"http://origin/a.png", "http://origin/favicon.png"}

\* req.url.includes('favicon'): the path and the query string are searched
IncludesFavicon(r) == r.path = "/favicon.ico" \/ r.url = "http://origin/favicon.png"

\* a check for an absent parameter only: an empty url= is let through
OnlyUndefined(r) == ~r.hasUrl

\* !imageUrl
Falsy(r) == ~r.hasUrl \/ r.url = ""

\* ------------------------------------------------------------- upstream
NoHeader == <<>>

ContentTypes == {NoHeader, <<"image", "png">>, <<"image", "gif">>, <<"text", "html">>}

\* originalContentTypeHeader.startsWith('image/')
StartsWithImage(ct) == Len(ct) > 0 /\ ct[1] = "image"

\* !h || !h.startsWith('image/')
NotAnImage(ct) == ct = NoHeader \/ ~StartsWithImage(ct)

\* response.headers.get('content-type') || 'image/jpeg'
originalContentType(v, ct) ==
  IF v = "index" /\ ct = NoHeader THEN <<"image", "jpeg">> ELSE ct

BodySizes == (0..MaxLen) \cup {TARGET_SIZE_STRICT, TARGET_SIZE_RELAXED,
                               MAX_INPUT_SIZE_BYTES, MAX_INPUT_SIZE_BYTES + 1}

\* content-length of the HEAD response, -1 when the header is absent
HeadLengths == {-1, 0, MAX_INPUT_SIZE_BYTES, MAX_INPUT_SIZE_BYTES + 1}

\* contentLength && parseInt(contentLength, 10) > MAX_INPUT_SIZE_BYTES
HeadTooLarge(cl) == cl # -1 /\ cl > MAX_INPUT_SIZE_BYTES

TooLarge(n) == n > MAX_INPUT_SIZE_BYTES

\* lengths a fixed-quality encode can come out at
EncSizes == 1..(MaxLen + 1)

\* size curves of the WebP encoder around the two byte budgets
HandlerEncoders ==
  { [base |-> t - 60 * sl, slope |-> sl] :
      t \in {TARGET_SIZE_STRICT, TARGET_SIZE_RELAXED}, sl \in (0 - MaxSlope)..MaxSlope }
  \cup { [base |-> TARGET_SIZE_RELAXED + 1, slope |-> 1] }

\* ------------------------------------------------------------ responses
sendCompressed(v, buffer, originalSize, compressedSize, contentType) ==
  [status |-> 200,
   contentType |-> CASE v = "index" -> <<"image", "avif">>
                     [] v = "final" -> <<"image", "webp">>
                     [] OTHER -> contentType,
   location |-> "",
   xOriginalSize |-> originalSize, xCompressedSize |-> compressedSize,
   body |-> buffer]

sendOriginal(buffer, contentType) ==
  [status |-> 200, contentType |-> contentType, location |-> "",
   xOriginalSize |-> buffer.len, xCompressedSize |-> buffer.len,
   body |-> buffer]

JsonBody == Buffer("json", 0, 0)

BadRequest == [NoRes EXCEPT !.status = 400, !.contentType = <<"application", "json">>,
                            !.body = JsonBody]

NoContent == [NoRes EXCEPT !.status = 204]

DebugReport == [NoRes EXCEPT !.status = 200, !.contentType = <<"application", "json">>,
                             !.body = JsonBody]

Placeholder == Buffer("error.png", 0, 1)

\* a catch block that lets the error through: the platform answers 500
Rethrow(v, imageUrl) == [NoRes EXCEPT !.status = 500]

\* the catch block: placeholder image or redirect to the source
Catch(v, imageUrl) ==
  IF v = "index"
    THEN [NoRes EXCEPT !.status = 200, !.contentType = <<"image", "png">>,
                       !.body = Placeholder]
    ELSE [NoRes EXCEPT !.status = 302, !.location = imageUrl,
                       !.body = IF v = "final" THEN NullBuffer ELSE Buffer("text", 0, 0)]

SmallerOrEqual(c, o) == c <= o

\* compressedSize < originalSize
Smaller(c, o) == c < o

\* the final decision of every variant
Decide(v, compressed, compressedType, original, ct) ==
  IF compressed # NullBuffer /\ Smaller(compressed.len, original.len)
    THEN sendCompressed(v, compressed, original.len, compressed.len, compressedType)
    ELSE sendOriginal(original, originalContentType(v, ct))

AvifWinsTies(a, w) == a.len <= w.len

\* avifBuffer.length < webpBuffer.length
AvifWins(a, w) == a.len < w.len

\* let winner, winnerContentType
Winner(a, w) ==
  IF AvifWins(a, w)
    THEN [winner |-> a, winnerContentType |-> <<"image", "avif">>]
    ELSE [winner |-> w, winnerContentType |-> <<"image", "webp">>]

EitherDone(a, w) == a.state = "done" \/ w.state = "done"

\* Promise.all resolves when both encodes have
BothDone(a, w) == a.state = "done" /\ w.state = "done"

IgnoresSignal(ab) == TRUE

\* a fetch given controller.signal settles with data only while not aborted
CanResolve(ab) == ~ab

\* ------------------------------------------------------------- actions
Idle == [state |-> "idle", buf |-> NullBuffer]

\* the response is sent and the finally block clears the timer
Finish(r) ==
  /\ res' = r
  /\ pc' = "done"
  /\ timeoutId' = "cleared"
  /\ UNCHANGED error

\* an error is thrown inside the try block: the catch block answers and the
\* finally block clears the timer
Fail(kind) ==
  /\ error' = kind
  /\ res' = Catch(variant, req.url)
  /\ pc' = "done"
  /\ timeoutId' = "cleared"

fetchVars == <<originalContentTypeHeader, originalBuffer, metadata>>

codecVars == <<enc, targetSize, search, compressedBuffer, avif, webp, encodes>>

\* if (req.url.includes('favicon')) return res.status(204).send(null)
Favicon ==
  /\ pc = "start"
  /\ HasFaviconGate(variant)
  /\ IncludesFavicon(req)
  /\ res' = NoContent
  /\ pc' = "done"
  /\ UNCHANGED <<variant, req, timeoutId, aborted, abortedAt, fetchVars, codecVars, error>>

\* if (!imageUrl) return res.status(400).json(...)
MissingParameter ==
  /\ pc = "start"
  /\ ~(HasFaviconGate(variant) /\ IncludesFavicon(req))
  /\ Falsy(req)
  /\ res' = BadRequest
  /\ pc' = "done"
  /\ UNCHANGED <<variant, req, timeoutId, aborted, abortedAt, fetchVars, codecVars, error>>

\* the timer is armed, new URL(imageUrl) throws, the catch block answers
InvalidUrl ==
  /\ pc = "start"
  /\ ~(HasFaviconGate(variant) /\ IncludesFavicon(req))
  /\ ~Falsy(req)
  /\ ~UsesHead(variant)
  /\ ~ParsesAsURL(req.url)
  /\ Fail("InvalidUrl")
  /\ UNCHANGED <<variant, req, aborted, abortedAt, fetchVars, codecVars>>

\* the timer is armed and the first fetch is issued
Accept ==
  /\ pc = "start"
  /\ ~(HasFaviconGate(variant) /\ IncludesFavicon(req))
  /\ ~Falsy(req)
  /\ UsesHead(variant) \/ ParsesAsURL(req.url)
  /\ timeoutId' = "armed"
  /\ pc' = IF UsesHead(variant) THEN "head" ELSE "fetch"
  /\ UNCHANGED <<variant, req, aborted, abortedAt, fetchVars, codecVars, error, res>>

\* setTimeout(() => controller.abort(), FETCH_TIMEOUT_MS)
TimerFires ==
  /\ timeoutId = "armed"
  /\ ~aborted
  /\ aborted' = TRUE
  /\ abortedAt' = pc
  /\ UNCHANGED <<variant, req, pc, timeoutId, fetchVars, codecVars, error, res>>

FetchStages == {"head", "fetch", "body"}

\* a fetch or a body download rejects: network error, bad URL or abort
FetchFails ==
  /\ pc \in FetchStages
  /\ Fail(IF aborted THEN "Timeout" ELSE "NetworkError")
  /\ UNCHANGED <<variant, req, aborted, abortedAt, fetchVars, codecVars>>

\* the HEAD response arrives and its content-length is checked
HeadResponds ==
  /\ pc = "head"
  /\ CanResolve(aborted)
  /\ ParsesAsURL(req.url)
  /\ \E cl \in HeadLengths :
       IF HeadTooLarge(cl)
         THEN Fail("TooLarge")
         ELSE /\ pc' = "fetch"
              /\ UNCHANGED <<timeoutId, res, error>>
  /\ UNCHANGED <<variant, req, aborted, abortedAt, fetchVars, codecVars>>

\* the GET response arrives: status and content-type are checked
FetchResponds ==
  /\ pc = "fetch"
  /\ CanResolve(aborted)
  /\ \E ok \in BOOLEAN, ct \in ContentTypes :
       IF ~ok
         THEN Fail("UpstreamError") /\ UNCHANGED originalContentTypeHeader
         ELSE /\ originalContentTypeHeader' = ct
              /\ IF ValidatesContentType(variant) /\ NotAnImage(ct)
                   THEN Fail("NotAnImage")
                   ELSE /\ pc' = "body"
                        /\ UNCHANGED <<timeoutId, res, error>>
  /\ UNCHANGED <<variant, req, aborted, abortedAt, originalBuffer, metadata, codecVars>>

\* the body is downloaded: its length is checked, metadata is requested
BodyArrives ==
  /\ pc = "body"
  /\ CanResolve(aborted)
  /\ \E n \in BodySizes :
       /\ originalBuffer' = Buffer("upstream", 0, n)
       /\ IF RejectsEmptyBody(variant) /\ n = 0
            THEN Fail("EmptyBody")
            ELSE IF ChecksDownloadedSize(variant) /\ TooLarge(n)
                   THEN Fail("TooLarge")
                   ELSE /\ pc' = "metadata"
                        /\ UNCHANGED <<timeoutId, res, error>>
  /\ UNCHANGED <<variant, req, aborted, abortedAt, originalContentTypeHeader,
                 metadata, codecVars>>

\* sharp(originalBuffer).metadata() rejects: not a decodable image
MetadataFails ==
  /\ pc = "metadata"
  /\ Fail("DecodeError")
  /\ UNCHANGED <<variant, req, aborted, abortedAt, fetchVars, codecVars>>

\* metadata arrives for an animation: the original is sent
Animation ==
  /\ pc = "metadata"
  /\ originalBuffer.len > 0
  /\ \E pages \in 2..MaxPages :
       metadata' = [pages |-> pages]
  /\ Finish(sendOriginal(originalBuffer,
                         originalContentType(variant, originalContentTypeHeader)))
  /\ UNCHANGED <<variant, req, aborted, abortedAt, originalContentTypeHeader,
                 originalBuffer, codecVars>>

\* metadata arrives for a still image: the encodes are started
StartEncode ==
  /\ pc = "metadata"
  /\ originalBuffer.len > 0
  /\ \E pages \in 0..1 :
       metadata' = [pages |-> pages]
  /\ CASE Policy(variant) = "race" ->
            /\ avif' = [state |-> "running", buf |-> NullBuffer]
            /\ webp' = [state |-> "running", buf |-> NullBuffer]
            /\ encodes' = encodes + 2
            /\ pc' = "race"
            /\ UNCHANGED <<enc, targetSize, search>>
       [] Policy(variant) = "search" ->
            /\ targetSize' = IF req.mode = "relaxed" THEN TARGET_SIZE_RELAXED
                                                     ELSE TARGET_SIZE_STRICT
            /\ enc' \in HandlerEncoders
            /\ search' = SearchStart
            /\ pc' = "search"
            /\ UNCHANGED <<avif, webp, encodes>>
       [] OTHER ->
            /\ encodes' = encodes + 1
            /\ pc' = "encode"
            /\ UNCHANGED <<enc, targetSize, search, avif, webp>>
  /\ UNCHANGED <<variant, req, timeoutId, aborted, abortedAt,
                 originalContentTypeHeader, originalBuffer, compressedBuffer,
                 error, res>>

\* an encode rejects
EncodeFails ==
  /\ pc \in {"encode", "search", "besteffort"}
  /\ Fail("EncodeError")
  /\ UNCHANGED <<variant, req, aborted, abortedAt, fetchVars, codecVars>>

\* the single fixed-quality encode completes and the decision is taken
EncodeDone ==
  /\ pc = "encode"
  /\ \E n \in EncSizes :
       LET b == Buffer(Policy(variant), 0, n)
       IN  /\ compressedBuffer' = b
           /\ IF variant = "index" /\ req.debug = "true"
                THEN Finish(DebugReport)
                ELSE Finish(Decide(variant, b, <<"image", "webp">>, originalBuffer,
                                   originalContentTypeHeader))
  /\ UNCHANGED <<variant, req, aborted, abortedAt, fetchVars, enc, targetSize,
                 search, avif, webp, encodes>>

\* compressToTargetSize has returned: the decision is taken
Respond ==
  /\ pc = "returned"
  /\ Finish(Decide(variant, compressedBuffer, <<"image", "webp">>, originalBuffer,
                   originalContentTypeHeader))
  /\ UNCHANGED <<variant, req, aborted, abortedAt, fetchVars, codecVars>>

\* after an encode of the pair completes: wait for the other one, or pick
\* the winner and decide
Join(a, w) ==
  IF BothDone(a, w)
    THEN LET r == Winner(a.buf, w.buf)
         IN  /\ compressedBuffer' = r.winner
             /\ Finish(Decide(variant, r.winner, r.winnerContentType,
                              originalBuffer, originalContentTypeHeader))
    ELSE UNCHANGED <<pc, timeoutId, res, compressedBuffer, error>>

AvifDone ==
  /\ pc = "race"
  /\ avif.state = "running"
  /\ \E n \in EncSizes :
       /\ avif' = [state |-> "done", buf |-> Buffer("avif", 0, n)]
       /\ Join(avif', webp)
  /\ UNCHANGED <<variant, req, aborted, abortedAt, fetchVars, enc, targetSize,
                 search, webp, encodes>>

WebpDone ==
  /\ pc = "race"
  /\ webp.state = "running"
  /\ \E n \in EncSizes :
       /\ webp' = [state |-> "done", buf |-> Buffer("webp", 0, n)]
       /\ Join(avif, webp')
  /\ UNCHANGED <<variant, req, aborted, abortedAt, fetchVars, enc, targetSize,
                 search, avif, encodes>>

\* one encode of the pair rejects: Promise.all rejects at once
AvifFails ==
  /\ pc = "race"
  /\ avif.state = "running"
  /\ avif' = [state |-> "failed", buf |-> NullBuffer]
  /\ Fail("EncodeError")
  /\ UNCHANGED <<variant, req, aborted, abortedAt, fetchVars, enc, targetSize,
                 search, compressedBuffer, webp, encodes>>

WebpFails ==
  /\ pc = "race"
  /\ webp.state = "running"
  /\ webp' = [state |-> "failed", buf |-> NullBuffer]
  /\ Fail("EncodeError")
  /\ UNCHANGED <<variant, req, aborted, abortedAt, fetchVars, enc, targetSize,
                 search, compressedBuffer, avif, encodes>>

Init ==
  /\ variant \in Variants
  /\ req \in Requests
  /\ pc = "start"
  /\ timeoutId = "none"
  /\ aborted = FALSE
  /\ abortedAt = "none"
  /\ originalContentTypeHeader = NoHeader
  /\ originalBuffer = NullBuffer
  /\ metadata = [pages |-> 0]
  /\ enc = [base |-> 0, slope |-> 0]
  /\ targetSize = 0
  /\ search = SearchIdle
  /\ compressedBuffer = NullBuffer
  /\ avif = Idle
  /\ webp = Idle
  /\ encodes = 0
  /\ error = "none"
  /\ res = NoRes

Next ==
  \/ Favicon
  \/ MissingParameter
  \/ InvalidUrl
  \/ Accept
  \/ TimerFires
  \/ FetchFails
  \/ HeadResponds
  \/ FetchResponds
  \/ BodyArrives
  \/ MetadataFails
  \/ Animation
  \/ StartEncode
  \/ EncodeFails
  \/ EncodeDone
  \/ SearchProbe
  \/ BestEffortDone
  \/ Respond
  \/ AvifDone
  \/ WebpDone
  \/ AvifFails
  \/ WebpFails

Spec == Init /\ [][Next]_vars

\* the search on its own: synthetic encoders and every target size
SyntheticEncoders ==
  { [base |-> MaxSlope * MaxQualityStart, slope |-> s] : s \in (0 - MaxSlope)..MaxSlope }

SyntheticTargets == 0..(2 * MaxSlope * MaxQualityStart + 1)

InitSearch ==
  /\ variant = "compress_target"
  /\ req = [path |-> "/api", hasUrl |-> TRUE,
            url |-> "http://origin/a.png", debug |-> "", mode |-> ""]
  /\ pc = "search"
  /\ timeoutId = "armed"
  /\ aborted = FALSE
  /\ abortedAt = "none"
  /\ originalContentTypeHeader = <<"image", "png">>
  /\ originalBuffer = Buffer("upstream", 0, MAX_INPUT_SIZE_BYTES)
  /\ metadata = [pages |-> 1]
  /\ enc \in SyntheticEncoders
  /\ targetSize \in SyntheticTargets
  /\ search = SearchStart
  /\ compressedBuffer = NullBuffer
  /\ avif = Idle
  /\ webp = Idle
  /\ encodes = 0
  /\ error = "none"
  /\ res = NoRes

NextSearch == SearchProbe \/ BestEffortDone

SpecSearch == InitSearch /\ [][NextSearch]_vars

\* ----------------------------------------------- properties of the search
StrictlyIncreasing(e) == e.slope > 0

StrictlyDecreasing(e) == e.slope < 0

FittingQualities == { q \in Qualities : EncodedSize(enc, q) <= targetSize }

HighestFitting == CHOOSE q \in FittingQualities : \A r \in FittingQualities : r <= q

ProbesUsed == encodes

ReturnsHighestFitting ==
  /\ ProbesUsed <= MaxIterations
  /\ FittingQualities # {} =>
       /\ compressedBuffer = Encode(enc, HighestFitting)
       /\ compressedBuffer.len <= targetSize

\* C3 as stated: with an encoder whose size strictly DECREASES as quality
\* grows, the search returns the encode at the highest quality in 5..100
\* whose size is <= the target, using at most 8 encodes.
C3_Original ==
  (pc = "returned" /\ StrictlyDecreasing(enc)) => ReturnsHighestFitting

\* C3 amended: with an encoder whose size strictly INCREASES as quality
\* grows, for every target size that some quality in 5..100 meets, the
\* search returns the encode at the highest quality whose size is <= the
\* target, using at most 8 encodes.
C3_HighestFittingIncreasing ==
  (pc = "returned" /\ StrictlyIncreasing(enc)) => ReturnsHighestFitting

C3_Witness ==
  /\ pc = "returned"
  /\ StrictlyIncreasing(enc)
  /\ FittingQualities # {}
  /\ HighestFitting \notin {MinQualityStart, MaxQualityStart}
  /\ search.i > 1
  /\ compressedBuffer.quality = HighestFitting

NoProbeFits == \A q \in search.probed : EncodedSize(enc, q) > targetSize

\* C4: when no probed quality encodes to a size <= the target, the search
\* returns the (non-empty) encode at the minimum quality 5; and it returns a
\* buffer larger than the target only in that case.
C4_BestEffort ==
  pc = "returned" =>
    /\ compressedBuffer # NullBuffer
    /\ NoProbeFits => compressedBuffer = Encode(enc, MinQualityStart)
    /\ compressedBuffer.len > targetSize => NoProbeFits

C4_Witness ==
  /\ pc = "returned"
  /\ EncodedSize(enc, MinQualityStart) > targetSize
  /\ StrictlyIncreasing(enc)
  /\ search.probed # {}
  /\ compressedBuffer.quality = MinQualityStart
  /\ compressedBuffer.len > targetSize

\* ------------------------------------------- properties of the handlers
Accepted == timeoutId # "none"

ImageSources == {"upstream", "avif", "webp"}

\* the response carries fetched or encoded image bytes
ServesImageBytes == res.body.src \in ImageSources

Redirected ==
  /\ res.status = 302
  /\ res.location = req.url
  /\ ~ServesImageBytes

PlaceholderServed ==
  /\ res.status = 200
  /\ res.body.src = "error.png"
  /\ res.contentType = <<"image", "png">>

\* the fallback action the variant is configured with
FallbackDone ==
  /\ pc = "done"
  /\ IF variant = "index" THEN PlaceholderServed ELSE Redirected

DebugOn == variant = "index" /\ req.debug = "true"

\* the transcode of a single-frame image completed without error
Transcoded == pc = "done" /\ compressedBuffer # NullBuffer /\ error = "none"

\* C1: after a transcode that completed without error (debug off) the
\* compressed buffer is served only if it is strictly shorter than the
\* original; otherwise the original bytes are served with the upstream
\* content-type; the body served is never longer than the original.
C1_SmallerOrOriginal ==
  (Transcoded /\ ~DebugOn) =>
    /\ res.status = 200
    /\ res.body \in {compressedBuffer, originalBuffer}
    /\ res.body = compressedBuffer => compressedBuffer.len < originalBuffer.len
    /\ compressedBuffer.len >= originalBuffer.len =>
         /\ res.body = originalBuffer
         /\ res.contentType = originalContentTypeHeader
    /\ res.body.len <= originalBuffer.len

RaceStarted == variant = "race" /\ avif.state # "idle"

ShorterOfBoth ==
  IF avif.buf.len < webp.buf.len THEN avif.buf ELSE webp.buf

\* C5: the winner of the dual-codec variant is the shorter of the two
\* buffers, the WebP one on a tie, and the content-type sent with it is that
\* of the codec which produced it.
C5_WinnerIsShorter ==
  (RaceStarted /\ pc = "done" /\ error = "none") =>
    /\ compressedBuffer = ShorterOfBoth
    /\ compressedBuffer.len <= avif.buf.len
    /\ compressedBuffer.len <= webp.buf.len
    /\ avif.buf.len = webp.buf.len => compressedBuffer.src = "webp"
    /\ res.body = compressedBuffer =>
         res.contentType = <<"image", compressedBuffer.src>>

C5_Witness ==
  /\ RaceStarted
  /\ pc = "done"
  /\ avif.buf.len = webp.buf.len
  /\ res.body = webp.buf
  /\ res.contentType = <<"image", "webp">>

\* C6: both encodes are started together; the comparison and any image
\* response happen only after both have completed; if either fails there is
\* no comparison, the outcome is the fallback and the other buffer is not
\* served.
C6_JoinNotRace ==
  /\ avif.state = "idle" <=> webp.state = "idle"
  /\ RaceStarted =>
       /\ (compressedBuffer # NullBuffer \/ ServesImageBytes) =>
            (avif.state = "done" /\ webp.state = "done")
       /\ ("failed" \in {avif.state, webp.state}) =>
            /\ compressedBuffer = NullBuffer
            /\ FallbackDone
            /\ ~ServesImageBytes

C6_Witness ==
  /\ RaceStarted
  /\ avif.state = "failed"
  /\ webp.state = "done"
  /\ webp.buf.len < originalBuffer.len
  /\ Redirected

\* C7: for an image whose metadata reports more than one page, no encode is
\* performed and the response is the fetched bytes with the content-type the
\* upstream declared, whatever mode and debug are.
C7_AnimationPassthrough ==
  metadata.pages > 1 =>
    /\ encodes = 0
    /\ pc = "done"
    /\ res.status = 200
    /\ res.body = originalBuffer
    /\ res.contentType = originalContentTypeHeader

\* the rejection of an aborted or failed transfer is always delivered
SpecTimeout == Init /\ [][Next]_vars /\ WF_vars(FetchFails)

TimedOutInFetch == abortedAt \in FetchStages

TimeoutSafe ==
  TimedOutInFetch =>
    /\ aborted
    /\ pc \in FetchStages \cup {"done"}
    /\ pc = "done" => FallbackDone /\ error # "none"
    /\ ~ServesImageBytes

C9_NotAnImageFallsBack ==
  (pc = "done" /\ Accepted /\ NotAnImage(originalContentTypeHeader)) =>
    /\ FallbackDone
    /\ ~ServesImageBytes

\* C10: a fetched resource longer than the maximum input size ends in the
\* fallback action; it is never decoded, transcoded or served.
C10_TooLargeFallsBack ==
  originalBuffer.len > MAX_INPUT_SIZE_BYTES =>
    /\ FallbackDone
    /\ encodes = 0
    /\ ~ServesImageBytes

\* the request went on to the fetch stage: the timer was armed and the first
\* fetch was issued
ReachedFetch == Accepted /\ error # "InvalidUrl"

\* the four handlers with a favicon gate answer 204 to a request whose URL
\* contains "favicon"
GateAnswers ==
  /\ variant # "index"
  /\ req.path = "/favicon.ico" \/ req.url = "http://origin/favicon.png"

UrlMissingOrEmpty == ~req.hasUrl \/ req.url = ""

\* C11 as stated: the 400 JSON answer is given exactly to the requests
\* without a url parameter (an empty one counted as missing), with no timer
\* armed and no fetch issued, and every request with a url parameter goes on
\* to the fetch stage (its try block, the parsing of the url included),
\* whatever else the request URL contains.
C11_Original ==
  pc # "start" =>
    /\ res = BadRequest <=> UrlMissingOrEmpty
    /\ UrlMissingOrEmpty => timeoutId = "none"
    /\ ~UrlMissingOrEmpty => Accepted

\* C11 amended: a request that the favicon gate does not answer (204, no
\* timer, no fetch) gets the 400 JSON answer exactly when its url parameter
\* is missing or empty, with no timer armed and no fetch issued; with a
\* non-empty url the timer is armed, and the fetch is issued unless the
\* handler parses the url first and the url does not parse.
C11_MissingParameterGate ==
  pc # "start" =>
    /\ GateAnswers => res = NoContent /\ timeoutId = "none"
    /\ res = BadRequest <=> (~GateAnswers /\ UrlMissingOrEmpty)
    /\ res = BadRequest => pc = "done" /\ timeoutId = "none" /\ error = "none"
    /\ (~GateAnswers /\ ~UrlMissingOrEmpty) =>
         /\ Accepted
         /\ (variant = "index" \/ req.url # "not a url") => ReachedFetch

C11_Witness ==
  /\ pc = "done"
  /\ variant = "compress_target"
  /\ req.hasUrl
  /\ req.url = ""
  /\ res.status = 400
  /\ timeoutId = "none"

\* ------------------------------------------ the search as a binary search
NonDecreasing(e) == e.slope >= 0

LoopLeft == pc \in {"besteffort", "returned"}

\* what the search keeps true while it runs, for an encoder whose size does
\* not decrease as quality grows
SearchInvariant ==
  NonDecreasing(enc) =>
    /\ search.bestBuffer # NullBuffer => search.bestBuffer.len <= targetSize
    /\ \A q \in Qualities :
         q > search.maxQuality => EncodedSize(enc, q) > targetSize
    /\ LoopLeft =>
         /\ search.minQuality > search.maxQuality
         /\ search.i <= MaxIterations
    /\ (pc = "returned" /\ FittingQualities # {}) =>
         compressedBuffer = Encode(enc, HighestFitting)

\* what one iteration does to the bounds
NarrowsBounds ==
  pc = "search" =>
    LET q == (search.minQuality + search.maxQuality) \div 2
    IN  IF EncodedSize(enc, q) <= targetSize
          THEN /\ search'.minQuality = q + 1
               /\ search'.maxQuality = search.maxQuality
               /\ search'.bestBuffer = Encode(enc, q)
          ELSE /\ search'.maxQuality = q - 1
               /\ search'.minQuality = search.minQuality
               /\ search'.bestBuffer = search.bestBuffer

\* C12: for an encoder whose size does not decrease as quality grows, the
\* search returns the encode at the highest quality in 5..100 that meets the
\* target, if there is one; while it runs the best buffer fits the target and
\* no quality above the upper bound fits; an iteration raises the lower bound
\* past a probe that fits and lowers the upper bound below one that does
\* not; and the bounds have crossed when the loop is left, within 8
\* iterations.
C12_BinarySearch ==
  /\ []SearchInvariant
  /\ [][NarrowsBounds]_vars

C12_Witness ==
  /\ pc = "returned"
  /\ enc.slope = 0
  /\ search.i = MaxIterations - 1
  /\ search.minQuality > search.maxQuality
  /\ compressedBuffer.quality = MaxQualityStart

====
